---- MODULE Spec2Model ----
(***************************************************************************)
(* Model of scripts/validate-dependabot.py: the DependabotValidator class  *)
(* (file check, YAML load, schema validation, best-practice, security and  *)
(* operational passes, result tuple) driven by main().                     *)
(*                                                                         *)
(* A parsed YAML node is a record with a "shape" field (the Python type    *)
(* the loader produced) so that isinstance tests and attribute errors can  *)
(* be modelled.  A diagnostic is a record [kind, label, arg]: kind is the  *)
(* f-string template of the message, label and arg are the interpolated    *)
(* values.  An uncaught Python exception ends the process: pc = "crashed". *)
(***************************************************************************)
EXTENDS Integers, Sequences, FiniteSets, TLC

VARIABLES
    file,            \* the file on disk: exists, readable, parses, doc, comment ratio
    run,             \* number of the current process (main() invocation)
    pc,              \* position inside validate()
    idx,             \* 1-based position of the for-loop of the current pass
    config,          \* self.config
    errors,          \* self.errors
    warnings,        \* self.warnings
    info,            \* self.info
    ecosystems_seen, \* local of _validate_updates
    schedules,       \* local of _check_operations (dict time_key -> ecosystem)
    result,          \* the tuple validate() returned, <<>> before it returns
    prev             \* what the previous process produced (for comparing two runs)

vars == <<file, run, pc, idx, config, errors, warnings, info,
          ecosystems_seen, schedules, result, prev>>

(***************************************************************************)
(* Bounds of the model.                                                    *)
(***************************************************************************)
MaxUpdates == 2
MaxSlotRules == 3
MaxRuns == 2

(***************************************************************************)
(* Rule tables (module-level sets of the script).                          *)
(***************************************************************************)
VALID_TOP_LEVEL == {"version", "registries", "updates", "enable-beta-ecosystems"}
VALID_REGISTRY_TYPES == {"npm-registry", "maven-repository", "composer-repository",
                         "python-index", "rubygems-server", "nuget-feed",
                         "docker-registry", "terraform-registry", "hex-organization",
                         "hex-repository"}
VALID_REGISTRY == {"type", "url", "username", "password", "key", "token",
                   "replaces-base", "organization"}
VALID_ECOSYSTEMS == {"npm", "bundler", "composer", "docker", "github-actions",
                     "gomod", "gradle", "maven", "mix", "nuget", "pip",
                     "terraform", "pub", "cargo", "elm"}
VALID_UPDATE == {"package-ecosystem", "directory", "schedule", "target-branch", "vendor",
                 "open-pull-requests-limit", "pull-request-branch-name", "rebase-strategy",
                 "labels", "reviewers", "assignees", "milestone", "commit-message",
                 "ignore", "allow", "versioning-strategy", "insecure-external-code-execution",
                 "registries", "groups"}
VALID_SCHEDULE == {"interval", "day", "time", "timezone"}
VALID_INTERVALS == {"daily", "weekly", "monthly"}
VALID_DAYS == {"monday", "tuesday", "wednesday", "thursday", "friday", "saturday", "sunday"}
VALID_COMMIT_MSG == {"prefix", "prefix-development", "include"}
VALID_BRANCH_NAME == {"separator"}
VALID_IGNORE == {"dependency-name", "versions", "update-types"}
VALID_ALLOW == {"dependency-name", "dependency-type"}
VALID_ALLOW_TYPES == {"direct", "indirect", "all", "production", "development"}
VALID_REBASE_STRATEGY == {"auto", "disabled"}
VALID_VERSIONING_STRATEGY == {"auto", "lockfile-only", "widen", "increase",
                              "increase-if-necessary"}
VALID_INSECURE_EXECUTION == {"allow", "deny"}
VALID_GROUP == {"applies-to", "patterns", "exclude-patterns", "dependency-type", "update-types"}

(***************************************************************************)
(* Python values.  Absent marks a key that is not in its mapping (so that  *)
(* dict.get returns its default); the empty string is the falsy scalar.    *)
(***************************************************************************)
Absent == "<absent>"
PyNone == "None"

\* dict.get(key, default) for a string-valued key
Get(v, default) == IF v = Absent THEN default ELSE v

\* Python truthiness of the result of dict.get(key) on a string-valued key
Truthy(v) == v # Absent /\ v # ""

\* str() of a value interpolated in an f-string
Str(v) == IF v = Absent THEN PyNone ELSE v

D(kind, label, arg) == [kind |-> kind, label |-> label, arg |-> arg]

\* the diagnostics a step of the run produces, and whether it raised
Out(e, w, i, raised) == [e |-> e, w |-> w, i |-> i, raised |-> raised]
Nothing == Out(<<>>, <<>>, <<>>, FALSE)
Raise == Out(<<>>, <<>>, <<>>, TRUE)

\* sequential composition of two pieces of code: b runs only if a did not raise
Then(a, b) ==
    IF a.raised THEN a
    ELSE Out(a.e \o b.e, a.w \o b.w, a.i \o b.i, b.raised)

Err(d) == Out(<<d>>, <<>>, <<>>, FALSE)
Warn(d) == Out(<<>>, <<d>>, <<>>, FALSE)
Info(d) == Out(<<>>, <<>>, <<d>>, FALSE)
When(c, o) == IF c THEN o ELSE Nothing

\* for key in keys: if key not in valid: errors.append(kind ...)
RECURSIVE KeyErrors(_, _, _, _)
KeyErrors(keys, valid, kind, label) ==
    IF keys = <<>> THEN Nothing
    ELSE Then(When(Head(keys) \notin valid, Err(D(kind, label, Head(keys)))),
              KeyErrors(Tail(keys), valid, kind, label))

(***************************************************************************)
(* Parsed nodes.                                                           *)
(*   scalar   : [t, v, s]  t in {"absent","null","int","str"}; v the       *)
(*              integer value, s the text of a non-integer                 *)
(*   schedule : [shape, interval, day, time, extra]                        *)
(*   mapping with checked keys : [shape, keys]                             *)
(*   groups   : [shape, entries], entry = [name, shape, appliesTo, keys]   *)
(*   update   : the record built by BaseUpdate                             *)
(* shape is "absent" (key not in the parent), "null" (YAML null) or the    *)
(* container type; "keys"/"extra" carry the keys that have no field of     *)
(* their own, in file order.                                               *)
(***************************************************************************)
IntV(n) == [t |-> "int", v |-> n, s |-> ""]
StrV(s) == [t |-> "str", v |-> 0, s |-> s]
NullV == [t |-> "null", v |-> 0, s |-> PyNone]
AbsentV == [t |-> "absent", v |-> 0, s |-> PyNone]

\* str() of a scalar
ScalarStr(p) == IF p.t = "int" THEN ToString(p.v) ELSE p.s

Present(k, c) == IF c THEN <<k>> ELSE <<>>

NoSchedule == [shape |-> "absent", interval |-> Absent, day |-> Absent,
               time |-> Absent, extra |-> Absent]
NullSchedule == [NoSchedule EXCEPT !.shape = "null"]
Schedule(interval, day, time, extra) ==
    [shape |-> "map", interval |-> interval, day |-> day, time |-> time, extra |-> extra]

NoMap == [shape |-> "absent", keys |-> <<>>]
NullMap == [shape |-> "null", keys |-> <<>>]
Map(keys) == [shape |-> "map", keys |-> keys]

NoList == [shape |-> "absent", rules |-> <<>>]
NullList == [shape |-> "null", rules |-> <<>>]
List(rules) == [shape |-> "list", rules |-> rules]

AllowRule(depType, keys) == [depType |-> depType, keys |-> keys]

NoGroups == [shape |-> "absent", entries |-> <<>>]
NullGroups == [shape |-> "null", entries |-> <<>>]
Groups(entries) == [shape |-> "map", entries |-> entries]
Group(name, appliesTo, keys) ==
    [name |-> name, shape |-> "map", appliesTo |-> appliesTo, keys |-> keys]
NullGroup(name) == [name |-> name, shape |-> "null", appliesTo |-> Absent, keys |-> <<>>]

BaseUpdate ==
    [shape |-> "map", eco |-> "pip", directory |-> TRUE,
     schedule |-> Schedule("daily", Absent, Absent, Absent),
     prLimit |-> AbsentV, rebase |-> "disabled", versioning |-> Absent,
     insecure |-> Absent, labels |-> TRUE, reviewers |-> TRUE, assignees |-> FALSE,
     commitMessage |-> NoMap, branchName |-> NoMap, ignore |-> NoList,
     allow |-> NoList, groups |-> NoGroups, extra |-> Absent]

\* an element of `updates` that is not a mapping (YAML null, or a string)
NonMapUpdate(shape) == [BaseUpdate EXCEPT !.shape = shape]

\* update.keys()
UpdateKeys(u) ==
    Present("package-ecosystem", u.eco # Absent) \o Present("directory", u.directory)
    \o Present("schedule", u.schedule.shape # "absent")
    \o Present("open-pull-requests-limit", u.prLimit.t # "absent")
    \o Present("rebase-strategy", u.rebase # Absent)
    \o Present("versioning-strategy", u.versioning # Absent)
    \o Present("insecure-external-code-execution", u.insecure # Absent)
    \o Present("labels", u.labels) \o Present("reviewers", u.reviewers)
    \o Present("assignees", u.assignees)
    \o Present("commit-message", u.commitMessage.shape # "absent")
    \o Present("pull-request-branch-name", u.branchName.shape # "absent")
    \o Present("ignore", u.ignore.shape # "absent")
    \o Present("allow", u.allow.shape # "absent")
    \o Present("groups", u.groups.shape # "absent")
    \o Present(u.extra, u.extra # Absent)

\* schedule.keys()
ScheduleKeys(s) ==
    Present("interval", s.interval # Absent) \o Present("day", s.day # Absent)
    \o Present("time", s.time # Absent) \o Present(s.extra, s.extra # Absent)

GroupKeys(g) == Present("applies-to", g.appliesTo # Absent) \o g.keys
AllowKeys(r) == Present("dependency-type", r.depType # Absent) \o r.keys

(***************************************************************************)
(* _validate_schedule                                                      *)
(***************************************************************************)
\* lines 217-220: the day is looked at only under a weekly interval
DayCheck(ecosystem, interval, day) ==
    When(interval = "weekly",
         When(Truthy(day) /\ day \notin VALID_DAYS,
              Err(D("Invalid schedule day", ecosystem, day))))

ValidateSchedule(ecosystem, schedule) ==
    IF schedule.shape # "map" THEN Raise    \* schedule.keys() on a non-mapping
    ELSE Then(KeyErrors(ScheduleKeys(schedule), VALID_SCHEDULE,
                        "Invalid schedule key", ecosystem),
         Then(When(schedule.interval \notin VALID_INTERVALS,
                   Err(D("Invalid schedule interval", ecosystem, Str(schedule.interval)))),
              DayCheck(ecosystem, schedule.interval, schedule.day)))

(***************************************************************************)
(* _validate_update_fields                                                 *)
(***************************************************************************)
\* lines 225-228
PrLimitCheck(ecosystem, p) ==
    When(p.t \notin {"absent", "null"},
         When(p.t # "int" \/ p.v < 0 \/ p.v > 100,
              Err(D("Invalid open-pull-requests-limit", ecosystem, ScalarStr(p)))))

\* lines 231-243: value in a fixed enum when truthy
EnumCheck(ecosystem, v, valid, kind) ==
    When(Truthy(v) /\ v \notin valid, Err(D(kind, ecosystem, v)))

\* lines 246-255: keys of a nested mapping
NestedKeysCheck(ecosystem, m, valid, kind) ==
    IF m.shape = "absent" THEN Nothing
    ELSE IF m.shape # "map" THEN Raise
    ELSE KeyErrors(m.keys, valid, kind, ecosystem)

\* lines 258-262
RECURSIVE IgnoreRules(_, _)
IgnoreRules(ecosystem, rules) ==
    IF rules = <<>> THEN Nothing
    ELSE Then(KeyErrors(Head(rules), VALID_IGNORE, "Invalid ignore key", ecosystem),
              IgnoreRules(ecosystem, Tail(rules)))

IgnoreCheck(ecosystem, ig) ==
    IF ig.shape = "absent" THEN Nothing
    ELSE IF ig.shape # "list" THEN Raise
    ELSE IgnoreRules(ecosystem, ig.rules)

\* lines 265-273
RECURSIVE AllowRules(_, _)
AllowRules(ecosystem, rules) ==
    IF rules = <<>> THEN Nothing
    ELSE Then(KeyErrors(AllowKeys(Head(rules)), VALID_ALLOW, "Invalid allow key", ecosystem),
         Then(When(Truthy(Head(rules).depType) /\ Head(rules).depType \notin VALID_ALLOW_TYPES,
                   Err(D("Invalid dependency-type", ecosystem, Head(rules).depType))),
              AllowRules(ecosystem, Tail(rules))))

AllowCheck(ecosystem, al) ==
    IF al.shape = "absent" THEN Nothing
    ELSE IF al.shape # "list" THEN Raise
    ELSE AllowRules(ecosystem, al.rules)

\* lines 276-280
RECURSIVE GroupEntries(_, _)
GroupEntries(ecosystem, entries) ==
    IF entries = <<>> THEN Nothing
    ELSE IF Head(entries).shape # "map" THEN Raise
    ELSE Then(KeyErrors(GroupKeys(Head(entries)), VALID_GROUP, "Invalid group key",
                        ecosystem \o "." \o Head(entries).name),
              GroupEntries(ecosystem, Tail(entries)))

GroupsCheck(ecosystem, g) ==
    IF g.shape = "absent" THEN Nothing
    ELSE IF g.shape # "map" THEN Raise
    ELSE GroupEntries(ecosystem, g.entries)

ValidateUpdateFields(ecosystem, update) ==
    Then(PrLimitCheck(ecosystem, update.prLimit),
    Then(EnumCheck(ecosystem, update.rebase, VALID_REBASE_STRATEGY, "Invalid rebase-strategy"),
    Then(EnumCheck(ecosystem, update.versioning, VALID_VERSIONING_STRATEGY,
                   "Invalid versioning-strategy"),
    Then(EnumCheck(ecosystem, update.insecure, VALID_INSECURE_EXECUTION,
                   "Invalid insecure-external-code-execution"),
    Then(NestedKeysCheck(ecosystem, update.commitMessage, VALID_COMMIT_MSG,
                         "Invalid commit-message key"),
    Then(NestedKeysCheck(ecosystem, update.branchName, VALID_BRANCH_NAME,
                         "Invalid pull-request-branch-name key"),
    Then(IgnoreCheck(ecosystem, update.ignore),
    Then(AllowCheck(ecosystem, update.allow),
         GroupsCheck(ecosystem, update.groups)))))))))

(***************************************************************************)
(* _validate_updates, one iteration of its loop (i is the 0-based index)   *)
(***************************************************************************)
\* line 176
SchemaLabel(update, i) == Get(update.eco, "update-" \o ToString(i))

\* a duplicate check that also warns the first time an ecosystem is seen
DuplicateCheckEveryRule(ecosystem, seen) ==
    Warn(D("Duplicate ecosystem configuration", ecosystem, ""))

\* lines 179-180
DuplicateCheck(ecosystem, seen) ==
    When(ecosystem \in seen, Warn(D("Duplicate ecosystem configuration", ecosystem, "")))

ValidateUpdate(i, update, seen) ==
    IF update.shape # "map" THEN Raise      \* update.get on a non-mapping
    ELSE LET ecosystem == SchemaLabel(update, i) IN
         Then(DuplicateCheck(ecosystem, seen),
         Then(When(ecosystem \notin VALID_ECOSYSTEMS,
                   Err(D("Invalid package-ecosystem in update", ToString(i), ecosystem))),
         Then(KeyErrors(UpdateKeys(update), VALID_UPDATE, "Invalid key", ecosystem),
         Then(When(~update.directory, Err(D("Missing required 'directory'", ecosystem, ""))),
         Then(When(update.schedule.shape = "absent",
                   Err(D("Missing required 'schedule'", ecosystem, ""))),
         Then(IF update.schedule.shape # "absent"
              THEN ValidateSchedule(ecosystem, update.schedule) ELSE Nothing,
         Then(ValidateUpdateFields(ecosystem, update),
              Info(D("Update configuration validated", ecosystem, "")))))))))

(***************************************************************************)
(* The document root.                                                      *)
(*   root       : [shape, version, registries, updates, extra]             *)
(*   registries : [shape, entries], entry = [name, shape, type, keys]      *)
(*   updates    : [shape, items]; shape "map" keeps in items what          *)
(*                iterating the mapping yields (its keys, strings)         *)
(***************************************************************************)
NoRegistries == [shape |-> "absent", entries |-> <<>>]
NullRegistries == [shape |-> "null", entries |-> <<>>]
Registries(entries) == [shape |-> "map", entries |-> entries]
Registry(name, type, keys) == [name |-> name, shape |-> "map", type |-> type, keys |-> keys]
NullRegistry(name) == [name |-> name, shape |-> "null", type |-> Absent, keys |-> <<>>]

NoUpdates == [shape |-> "absent", items |-> <<>>]
NullUpdates == [shape |-> "null", items |-> <<>>]
IntUpdates == [shape |-> "int", items |-> <<>>]
MapUpdates(n) == [shape |-> "map", items |-> [i \in 1..n |-> NonMapUpdate("str")]]
ListUpdates(items) == [shape |-> "list", items |-> items]

Doc(version, registries, updates, extra) ==
    [shape |-> "map", version |-> version, registries |-> registries,
     updates |-> updates, extra |-> extra]

\* a file whose root is not a mapping: empty (None) or a sequence
NonMapDoc(shape) == [Doc(AbsentV, NoRegistries, NoUpdates, Absent) EXCEPT !.shape = shape]

\* self.config = {} of __init__
EmptyConfig == Doc(AbsentV, NoRegistries, NoUpdates, Absent)

\* self.config.keys()
TopKeys(c) ==
    Present("version", c.version.t # "absent")
    \o Present("registries", c.registries.shape # "absent")
    \o Present("updates", c.updates.shape # "absent")
    \o Present(c.extra, c.extra # Absent)

RegistryKeys(r) == Present("type", r.type # Absent) \o r.keys

(***************************************************************************)
(* _validate_registries                                                    *)
(***************************************************************************)
RECURSIVE RegistryEntries(_)
RegistryEntries(entries) ==
    IF entries = <<>> THEN Nothing
    ELSE LET r == Head(entries) IN
         IF r.shape # "map" THEN Raise      \* reg_config.get on a non-mapping
         ELSE Then(When(r.type \notin VALID_REGISTRY_TYPES,
                        Err(D("Invalid registry type", r.name, Str(r.type)))),
              Then(KeyErrors(RegistryKeys(r), VALID_REGISTRY, "Invalid registry key", r.name),
              Then(Info(D("Registry validated", r.name, "")),
                   RegistryEntries(Tail(entries)))))

ValidateRegistries(registries) ==
    IF registries.shape # "map" THEN Raise  \* registries.items() on a non-mapping
    ELSE RegistryEntries(registries.entries)

(***************************************************************************)
(* _validate_schema up to the loop of _validate_updates                    *)
(***************************************************************************)
\* lines 124-128
VersionCheck(version) ==
    IF version.t = "int" /\ version.v = 2
    THEN Info(D("Version 2 confirmed", "", ""))
    ELSE Err(D("Invalid version", "", ScalarStr(version)))

\* lines 140-143 and 163-171
UpdatesHead(updates) ==
    IF updates.shape = "absent" THEN Err(D("Missing required 'updates' section", "", ""))
    ELSE IF updates.shape # "list" THEN Err(D("'updates' must be a list", "", ""))
    ELSE IF Len(updates.items) = 0 THEN Err(D("'updates' list is empty", "", ""))
    ELSE Nothing

ValidateSchemaHead(c) ==
    IF c.shape # "map" THEN Raise           \* self.config.get on None or a list
    ELSE Then(VersionCheck(c.version),
         Then(KeyErrors(TopKeys(c), VALID_TOP_LEVEL, "Invalid top-level key", ""),
         Then(IF c.registries.shape # "absent"
              THEN ValidateRegistries(c.registries) ELSE Nothing,
              UpdatesHead(c.updates))))

\* the for-loop of _validate_updates is entered
EntersUpdatesLoop(c) ==
    c.shape = "map" /\ c.updates.shape = "list" /\ Len(c.updates.items) > 0

(***************************************************************************)
(* The policy passes: `for update in self.config.get('updates', [])`       *)
(***************************************************************************)
Iterable(updates) == updates.shape \in {"absent", "list", "map"}
Items(updates) == IF updates.shape \in {"list", "map"} THEN updates.items ELSE <<>>

\* line 287, 313, 339
PolicyLabel(update) == Get(update.eco, "unknown")

DefaultPrLimit == 5

\* lines 295-298
PrLimitVsGroups(ecosystem, p, groups) ==
    IF groups.shape = "null" THEN Raise                 \* len(None)
    ELSE IF p.t \in {"null", "str"} THEN Raise          \* int > None, int > str
    ELSE LET pr_limit == IF p.t = "absent" THEN DefaultPrLimit ELSE p.v
             n == Len(groups.entries)
         IN  When(n > pr_limit,
                  Warn(D("PR limit is less than group count", ecosystem,
                         ToString(pr_limit) \o "<" \o ToString(n))))

\* _check_best_practices, one iteration
BestPractice(update) ==
    IF update.shape # "map" THEN Raise
    ELSE LET ecosystem == PolicyLabel(update) IN
         Then(When(update.rebase # "disabled",
                   Warn(D("Consider disabling rebase-strategy", ecosystem, ""))),
         Then(PrLimitVsGroups(ecosystem, update.prLimit, update.groups),
         Then(When(~update.labels, Warn(D("No labels configured", ecosystem, ""))),
              When(~update.reviewers /\ ~update.assignees,
                   Warn(D("No reviewers or assignees configured", ecosystem, ""))))))

\* the check without its ecosystem == 'npm' guard
InsecureCheckAnyEcosystem(ecosystem, insecure) ==
    IF insecure = "allow"
    THEN Warn(D("Consider denying external code execution", ecosystem, ""))
    ELSE IF insecure = "deny"
    THEN Info(D("External code execution denied", ecosystem, ""))
    ELSE Nothing

\* lines 316-321
InsecureCheck(ecosystem, insecure) ==
    When(ecosystem = "npm",
         IF insecure = "allow"
         THEN Warn(D("Consider denying external code execution", ecosystem, ""))
         ELSE IF insecure = "deny"
         THEN Info(D("External code execution denied", ecosystem, ""))
         ELSE Nothing)

\* lines 325-328: any(g.get('applies-to') == 'security-updates' for g in groups.values())
RECURSIVE AnySecurityGroup(_)
AnySecurityGroup(entries) ==
    IF entries = <<>> THEN "no"
    ELSE IF Head(entries).shape # "map" THEN "raise"
    ELSE IF Head(entries).appliesTo = "security-updates" THEN "yes"
    ELSE AnySecurityGroup(Tail(entries))

\* lines 324-330
SecurityGroupCheck(ecosystem, groups) ==
    IF groups.shape = "null" THEN Raise
    ELSE LET has == AnySecurityGroup(groups.entries) IN
         IF has = "raise" THEN Raise
         ELSE When(has = "no" /\ Len(groups.entries) > 0,
                   Warn(D("No dedicated security update group", ecosystem, "")))

\* _check_security, one iteration
Security(update) ==
    IF update.shape # "map" THEN Raise
    ELSE LET ecosystem == PolicyLabel(update) IN
         Then(InsecureCheck(ecosystem, update.insecure),
              SecurityGroupCheck(ecosystem, update.groups))

\* line 341
TimeKey(schedule) == Get(schedule.day, "none") \o "@" \o Get(schedule.time, "none")

\* the dict `schedules` as a set of [key, eco] entries, one per key
HasKey(sched, k) == \E x \in sched : x.key = k
Lookup(sched, k) == (CHOOSE x \in sched : x.key = k).eco

\* schedules.setdefault(time_key, ecosystem): the first holder keeps the slot
StoreIfAbsent(sched, k, ecosystem) ==
    IF \E x \in sched : x.key = k THEN sched
    ELSE sched \cup {[key |-> k, eco |-> ecosystem]}

\* line 345: schedules[time_key] = ecosystem
Store(sched, k, ecosystem) ==
    {x \in sched : x.key # k} \cup {[key |-> k, eco |-> ecosystem]}

\* _check_operations, one iteration of its loop (lines 339-344)
Operation(update, sched) ==
    IF update.shape # "map" THEN Raise
    ELSE IF update.schedule.shape = "null" THEN Raise  \* None.get
    ELSE LET ecosystem == PolicyLabel(update)
             time_key == TimeKey(update.schedule)
         IN  When(HasKey(sched, time_key),
                  Info(D("run at same time", ecosystem, Lookup(sched, time_key))))

\* lines 348-362: the comment ratio of the re-read file; text = [comments, total]
Documentation(reReadable, text) ==
    IF ~reReadable THEN Nothing               \* except Exception: pass
    ELSE IF text.total = 0 THEN Nothing
    ELSE IF 10 * text.comments > 3 * text.total
    THEN Info(D("Configuration is well-documented", "",
                ToString(text.comments) \o "/" \o ToString(text.total)))
    ELSE IF 10 * text.comments < text.total
    THEN Warn(D("Configuration lacks documentation", "",
                ToString(text.comments) \o "/" \o ToString(text.total)))
    ELSE Nothing

(***************************************************************************)
(* The diagnostic lists and the result of validate()                       *)
(***************************************************************************)
\* list.insert(0, ...) instead of list.append
ExtendAtFront(list, new) == new \o list

\* list.append of each new entry, in order
Extend(list, new) == list \o new

\* lists that outlive the validator
NewListKept(old) == old

\* lines 64-66: the lists of a new validator (old: what the last process held)
NewList(old) == <<>>

\* lines 76 and 80
FatalResult(e, w, i) == <<FALSE, Len(e), Len(w), Len(i)>>

\* a verdict that also counts warnings
FullResultStrict(e, w, i) == <<Len(e) + Len(w) = 0, Len(e), Len(w), Len(i)>>

\* line 97
FullResult(e, w, i) == <<Len(e) = 0, Len(e), Len(w), Len(i)>>

\* lines 101-105: _check_file_exists, its return value and what it appends
CheckFileExistsOk(exists) == exists

CheckFileExistsOut(exists) ==
    IF exists THEN Info(D("Configuration file found", "", ""))
    ELSE Err(D("Configuration file not found", "", ""))

\* lines 109-119: _check_yaml_syntax, its return value and what it appends
\* a syntax check that forgets to return False
CheckYamlSyntaxAlwaysOk(readable, parses) == TRUE

CheckYamlSyntaxOk(readable, parses) == readable /\ parses

CheckYamlSyntaxOut(readable, parses) ==
    IF ~readable THEN Err(D("Error reading file", "", ""))
    ELSE IF ~parses THEN Err(D("YAML syntax error", "", ""))
    ELSE Info(D("YAML syntax is valid", "", ""))

(***************************************************************************)
(* The run: main() builds a validator and calls validate() once.           *)
(***************************************************************************)
Apply(o) ==
    /\ errors' = Extend(errors, o.e)
    /\ warnings' = Extend(warnings, o.w)
    /\ info' = Extend(info, o.i)

\* the position after one iteration of a loop over n items
Advance(o, n, here, next) ==
    /\ pc' = IF o.raised THEN "crashed" ELSE IF idx >= n THEN next ELSE here
    /\ idx' = IF o.raised THEN idx ELSE IF idx >= n THEN 1 ELSE idx + 1

\* validate(), step 1
CheckFileExists ==
    /\ pc = "start"
    /\ LET o == CheckFileExistsOut(file.exists) IN
       /\ Apply(o)
       /\ IF CheckFileExistsOk(file.exists)
          THEN pc' = "yaml" /\ result' = result
          ELSE pc' = "returned" /\ result' = FatalResult(errors', warnings', info')
    /\ UNCHANGED <<file, run, idx, config, ecosystems_seen, schedules, prev>>

\* validate(), step 2
CheckYamlSyntax ==
    /\ pc = "yaml"
    /\ LET o == CheckYamlSyntaxOut(file.readable, file.parses) IN
       /\ Apply(o)
       /\ IF CheckYamlSyntaxOk(file.readable, file.parses)
          THEN pc' = "schema" /\ config' = file.doc /\ result' = result
          ELSE pc' = "returned" /\ config' = config
               /\ result' = FatalResult(errors', warnings', info')
    /\ UNCHANGED <<file, run, idx, ecosystems_seen, schedules, prev>>

\* validate(), step 3: _validate_schema up to the loop over the updates
ValidateSchema ==
    /\ pc = "schema"
    /\ LET o == ValidateSchemaHead(config) IN
       /\ Apply(o)
       /\ pc' = IF o.raised THEN "crashed"
                ELSE IF EntersUpdatesLoop(config) THEN "updates" ELSE "best"
    /\ idx' = 1
    /\ ecosystems_seen' = {}
    /\ UNCHANGED <<file, run, config, schedules, result, prev>>

\* one iteration of the loop of _validate_updates
ValidateUpdates ==
    /\ pc = "updates"
    /\ LET update == config.updates.items[idx]
           o == ValidateUpdate(idx - 1, update, ecosystems_seen)
       IN  /\ Apply(o)
           /\ Advance(o, Len(config.updates.items), "updates", "best")
           /\ ecosystems_seen' =
                 IF update.shape = "map"
                 THEN ecosystems_seen \cup {SchemaLabel(update, idx - 1)}
                 ELSE ecosystems_seen
    /\ UNCHANGED <<file, run, config, schedules, result, prev>>

\* one iteration of a policy pass over `updates` (body: what the loop body does
\* with the item at position i), or reaching a loop that has nothing to do
PolicyStep(updates, i, body) ==
    IF ~Iterable(updates) THEN Raise                  \* for ... in None / in 5
    ELSE IF i > Len(Items(updates)) THEN Nothing
    ELSE body

\* the item a policy pass is at
Item(updates, i) ==
    IF i \in 1..Len(Items(updates)) THEN Items(updates)[i] ELSE NonMapUpdate("null")

\* validate(), step 4
CheckBestPractices ==
    /\ pc = "best"
    /\ LET o == PolicyStep(config.updates, idx, BestPractice(Item(config.updates, idx))) IN
       /\ Apply(o)
       /\ Advance(o, Len(Items(config.updates)), "best", "security")
    /\ UNCHANGED <<file, run, config, ecosystems_seen, schedules, result, prev>>

\* validate(), step 5
CheckSecurity ==
    /\ pc = "security"
    /\ LET o == PolicyStep(config.updates, idx, Security(Item(config.updates, idx))) IN
       /\ Apply(o)
       /\ Advance(o, Len(Items(config.updates)), "security", "operations")
    /\ UNCHANGED <<file, run, config, ecosystems_seen, schedules, result, prev>>

\* validate(), step 6: the schedule-conflict loop of _check_operations
CheckOperations ==
    /\ pc = "operations"
    /\ LET items == Items(config.updates)
           o == PolicyStep(config.updates, idx,
                           Operation(Item(config.updates, idx), schedules))
       IN  /\ Apply(o)
           /\ Advance(o, Len(items), "operations", "docs")
           /\ schedules' =
                 IF o.raised \/ idx > Len(items) THEN schedules
                 ELSE Store(schedules, TimeKey(items[idx].schedule), PolicyLabel(items[idx]))
    /\ UNCHANGED <<file, run, config, ecosystems_seen, result, prev>>

\* the rest of validate(): the comment ratio, _print_results, the return
CheckDocumentation ==
    /\ pc = "docs"
    /\ Apply(Documentation(file.reReadable, file.text))
    /\ pc' = "returned"
    /\ result' = FullResult(errors', warnings', info')
    /\ UNCHANGED <<file, run, idx, config, ecosystems_seen, schedules, prev>>

\* what a finished process showed: how it ended, its lists and its result
Outcome == [pc |-> pc, errors |-> errors, warnings |-> warnings,
            info |-> info, result |-> result]

\* main() again on the same file: a new process, a new validator (__init__)
Main ==
    /\ pc \in {"returned", "crashed"}
    /\ run < MaxRuns
    /\ run' = run + 1
    /\ prev' = <<Outcome>>
    /\ pc' = "start"
    /\ idx' = 1
    /\ config' = EmptyConfig
    /\ errors' = NewList(errors)
    /\ warnings' = NewList(warnings)
    /\ info' = NewList(info)
    /\ ecosystems_seen' = {}
    /\ schedules' = {}
    /\ result' = <<>>
    /\ UNCHANGED file

Next ==
    \/ CheckFileExists
    \/ CheckYamlSyntax
    \/ ValidateSchema
    \/ ValidateUpdates
    \/ CheckBestPractices
    \/ CheckSecurity
    \/ CheckOperations
    \/ CheckDocumentation
    \/ Main

(***************************************************************************)
(* The files the validator is run on.  A file is                           *)
(*   [exists, readable, parses, doc, reReadable, text]                     *)
(* doc is what yaml.safe_load returns, reReadable whether the second       *)
(* open() of _check_operations succeeds, text the line counts it reads.    *)
(***************************************************************************)
\* all sequences over S of length 1..n
RECURSIVE SeqsUpTo(_, _)
SeqsUpTo(S, n) ==
    IF n = 0 THEN {}
    ELSE LET shorter == SeqsUpTo(S, n - 1) IN
         {<<x>> : x \in S} \cup shorter \cup {Append(l, x) : l \in shorter, x \in S}

Text(comments, total) == [comments |-> comments, total |-> total]
Texts == {Text(0, 0), Text(0, 10), Text(1, 10), Text(4, 10)}

File(exists, readable, parses, doc, reReadable, text) ==
    [exists |-> exists, readable |-> readable, parses |-> parses, doc |-> doc,
     reReadable |-> reReadable, text |-> text]

BaseDoc == Doc(IntV(2), NoRegistries, ListUpdates(<<BaseUpdate>>), Absent)

\* a file that parses, with comments on a tenth of its lines
Parsed(doc) == File(TRUE, TRUE, TRUE, doc, TRUE, Text(1, 10))

\* missing, unreadable, or not YAML
FatalFiles ==
    {File(FALSE, FALSE, FALSE, BaseDoc, FALSE, Text(0, 0)),
     File(TRUE, FALSE, TRUE, BaseDoc, FALSE, Text(1, 10)),
     File(TRUE, TRUE, FALSE, BaseDoc, TRUE, Text(1, 10))}

\* the same document with every amount of comments, re-readable or not
TextFiles ==
    {File(TRUE, TRUE, TRUE, doc, r, t) :
        doc \in {BaseDoc, Doc(IntV(1), NoRegistries, NoUpdates, Absent)},
        r \in BOOLEAN, t \in Texts}

RegistryChoices ==
    {NoRegistries, NullRegistries,
     Registries(<<Registry("npm-github", "npm-registry", <<"url", "token">>)>>),
     Registries(<<Registry("mirror", "ftp", <<"url", "port">>)>>),
     Registries(<<Registry("untyped", Absent, <<>>), NullRegistry("empty")>>)}

UpdatesChoices ==
    {NoUpdates, NullUpdates, IntUpdates, MapUpdates(0), MapUpdates(1),
     ListUpdates(<<>>), ListUpdates(<<BaseUpdate>>)}

\* the shapes of the root and of its direct children
RootDocs ==
    {NonMapDoc("null"), NonMapDoc("list")}
    \cup {Doc(v, r, u, x) : v \in {IntV(2), IntV(1), StrV("2"), AbsentV},
                            r \in RegistryChoices, u \in UpdatesChoices,
                            x \in {Absent, "bogus"}}

\* update rules that differ in their schedule
ScheduleRules ==
    {[BaseUpdate EXCEPT !.schedule = s] :
        s \in {NoSchedule, NullSchedule, Schedule("hourly", "funday", Absent, "cron"),
                Schedule(Absent, Absent, Absent, Absent),
                Schedule("monthly", "funday", Absent, Absent)}
              \cup {Schedule(i, d, Absent, Absent) :
                       i \in {"weekly", "daily"},
                       d \in {Absent, "monday", "funday", ""}}}

\* update rules that differ in ecosystem and insecure-external-code-execution
SecurityRules ==
    {[BaseUpdate EXCEPT !.eco = e, !.insecure = x] :
        e \in {"npm", "pip"}, x \in {Absent, "allow", "deny", "maybe"}}
    \cup {[BaseUpdate EXCEPT !.eco = Absent, !.insecure = "allow"]}

OneGroup == Groups(<<Group("dev", "version-updates", <<"patterns">>)>>)
SecurityGroup == Groups(<<Group("sec", "security-updates", <<"patterns", "colour">>)>>)
SixGroups == Groups([i \in 1..6 |-> Group("g" \o ToString(i), Absent, <<>>)])
GroupChoices == {NoGroups, NullGroups, OneGroup, SecurityGroup, SixGroups,
                 Groups(<<NullGroup("void")>>)}
PrLimits == {AbsentV, NullV, IntV(0), IntV(150), StrV("ten")}

\* update rules that differ in PR limit and groups
LimitRules ==
    {[BaseUpdate EXCEPT !.prLimit = p] : p \in PrLimits}
    \cup {[BaseUpdate EXCEPT !.groups = g] : g \in GroupChoices}
    \cup {[BaseUpdate EXCEPT !.prLimit = IntV(0), !.groups = OneGroup]}

\* update rules that differ in what the best-practice pass looks at
PracticeRules ==
    {[BaseUpdate EXCEPT !.rebase = r, !.labels = l, !.reviewers = p[1], !.assignees = p[2]] :
        r \in {Absent, "disabled"}, l \in BOOLEAN,
        p \in {<<TRUE, FALSE>>, <<FALSE, FALSE>>}}
    \cup {[BaseUpdate EXCEPT !.reviewers = FALSE, !.assignees = TRUE]}

\* update rules that differ in one of the remaining fields
FieldRules ==
    {[BaseUpdate EXCEPT !.eco = e] : e \in {"pip", "pypi", Absent}}
    \cup {[BaseUpdate EXCEPT !.directory = FALSE], [BaseUpdate EXCEPT !.extra = "bogus"],
          [BaseUpdate EXCEPT !.directory = FALSE, !.schedule = NoSchedule]}
    \cup {[BaseUpdate EXCEPT !.rebase = "never", !.versioning = "narrow"],
          [BaseUpdate EXCEPT !.rebase = "auto", !.versioning = "widen"]}
    \cup {[BaseUpdate EXCEPT !.commitMessage = m] :
             m \in {NullMap, Map(<<"prefix", "suffix">>)}}
    \cup {[BaseUpdate EXCEPT !.branchName = m] : m \in {Map(<<"separator">>)}}
    \cup {[BaseUpdate EXCEPT !.ignore = l] :
             l \in {NullList, List(<<<<"dependency-name", "because">>>>)}}
    \cup {[BaseUpdate EXCEPT !.allow = l] :
             l \in {NullList, List(<<AllowRule("direct", <<>>),
                                      AllowRule("bogus", <<"because">>)>>)}}

\* elements of `updates` that are not all mappings
ShapeRules == {BaseUpdate, NonMapUpdate("null"), NonMapUpdate("str")}

\* update rules that differ in ecosystem and schedule slot
SlotRules ==
    {[BaseUpdate EXCEPT !.eco = e, !.schedule = s] :
        e \in {"npm", "pip"},
        s \in {NoSchedule, Schedule("weekly", "monday", Absent, Absent),
               Schedule("daily", "none", "none", Absent)}}
    \cup {[BaseUpdate EXCEPT !.eco = Absent, !.schedule = NoSchedule]}

UpdateLists ==
    UNION {SeqsUpTo(F, MaxUpdates) :
              F \in {ScheduleRules, SecurityRules, LimitRules, PracticeRules,
                     FieldRules, ShapeRules}}
    \cup SeqsUpTo(SlotRules, MaxSlotRules)

Docs == RootDocs \cup {Doc(IntV(2), NoRegistries, ListUpdates(l), Absent) : l \in UpdateLists}

Files == FatalFiles \cup TextFiles \cup {Parsed(doc) : doc \in Docs}

\* the state after main() has constructed the validator (lines 62-67)
Init ==
    /\ file \in Files
    /\ run = 1
    /\ pc = "start"
    /\ idx = 1
    /\ config = EmptyConfig
    /\ errors = <<>>
    /\ warnings = <<>>
    /\ info = <<>>
    /\ ecosystems_seen = {}
    /\ schedules = {}
    /\ result = <<>>
    /\ prev = <<>>

Spec == Init /\ [][Next]_vars

(***************************************************************************)
(* Properties.                                                             *)
(***************************************************************************)
IsPrefix(a, b) == Len(a) <= Len(b) /\ SubSeq(b, 1, Len(a)) = a

\* what a step appended to a list
Added(old, new) == SubSeq(new, Len(old) + 1, Len(new))

\* the entries of a list whose message has the given template
RECURSIVE OfKind(_, _)
OfKind(list, kind) ==
    IF list = <<>> THEN <<>>
    ELSE (IF Head(list).kind = kind THEN <<Head(list)>> ELSE <<>>) \o OfKind(Tail(list), kind)

Count(list, kind) == Len(OfKind(list, kind))

Max(S) == CHOOSE x \in S : \A y \in S : y <= x
Min(S) == CHOOSE x \in S : \A y \in S : x <= y

Fatal == ~file.exists \/ ~file.readable \/ ~file.parses

\* C1: whenever validate() has returned, by the fatal-input returns or after
\* the full run, the success flag equals (no errors) and the three counts are
\* the lengths of errors, warnings and info; warnings and info never count.
ResultMatchesListsC1 ==
    pc = "returned" =>
        /\ result[1] = (Len(errors) = 0)
        /\ result[2] = Len(errors)
        /\ result[3] = Len(warnings)
        /\ result[4] = Len(info)

\* a run that passed although it collected warnings and info
PassedWithWarningsC1 ==
    pc = "returned" /\ result[1] = TRUE /\ Len(warnings) > 0 /\ Len(info) > 2

\* C2: once the file is parsed no check raises: the run never ends in an
\* uncaught exception.
NeverRaisesC2 == pc # "crashed"

\* C3 as stated: the steps of schema validation leave the warnings unchanged.
SchemaNeverWarnsC3 ==
    [][(pc \in {"schema", "updates"}) => (warnings' = warnings)]_vars

\* C3 as amended: the only warning schema validation appends is the duplicate
\* ecosystem warning, exactly one for each update rule (a mapping) whose label
\* was already the label of an earlier rule.
SchemaWarnsOnlyDuplicatesC3 ==
    [][(pc \in {"schema", "updates"} =>
         LET items == config.updates.items
             label(j) == SchemaLabel(items[j], j - 1)
             repeated == /\ pc = "updates"
                         /\ items[idx].shape = "map"
                         /\ \E j \in 1..(idx - 1) : label(j) = label(idx)
         IN  warnings' =
                IF repeated
                THEN Append(warnings, D("Duplicate ecosystem configuration", label(idx), ""))
                ELSE warnings)]_vars

\* schema validation has finished and has appended a duplicate warning
DuplicateWarnedC3 ==
    pc = "best" /\ idx = 1 /\ Count(warnings, "Duplicate ecosystem configuration") = 1

\* C4: for a missing, unreadable or unparsable file the run never enters a
\* schema or policy pass and never loads a document; it returns failure with
\* exactly one error and no warning.
FatalInputStopsC4 ==
    Fatal =>
        /\ pc \in {"start", "yaml", "returned"}
        /\ config = EmptyConfig
        /\ warnings = <<>>
        /\ pc = "returned" => /\ Len(errors) = 1
                              /\ result = <<FALSE, 1, 0, Len(info)>>

\* a file that exists but does not parse has made validate() return
SyntaxErrorReturnedC4 ==
    pc = "returned" /\ file.exists /\ file.readable /\ ~file.parses /\ Len(errors) = 1

\* the diagnostics that only an update rule can produce
RuleKinds ==
    {"Duplicate ecosystem configuration", "Invalid package-ecosystem in update",
     "Invalid key", "Missing required 'directory'", "Missing required 'schedule'",
     "Invalid schedule key", "Invalid schedule interval", "Invalid schedule day",
     "Update configuration validated", "Consider disabling rebase-strategy",
     "PR limit is less than group count", "No labels configured",
     "No reviewers or assignees configured", "Consider denying external code execution",
     "External code execution denied", "No dedicated security update group",
     "run at same time"}

\* C5: once schema validation is over for a parsed root mapping without `updates`,
\* there is exactly one error about the missing section, and no diagnostic of
\* an update rule is ever produced.
MissingUpdatesC5 ==
    (~Fatal /\ file.doc.shape = "map" /\ file.doc.updates.shape = "absent"
       /\ pc \in {"best", "security", "operations", "docs", "returned", "crashed"}) =>
        /\ Count(errors, "Missing required 'updates' section") = 1
        /\ \A k \in RuleKinds :
              Count(errors, k) + Count(warnings, k) + Count(info, k) = 0

\* C6: the step that validates an update rule with a schedule appends exactly
\* one error about the day when the interval is weekly and `day` is present
\* with a value outside the weekday names, and none about the day when the
\* interval is daily or monthly.
WeeklyDayC6 ==
    [][((pc = "updates" /\ config.updates.items[idx].shape = "map"
          /\ config.updates.items[idx].schedule.shape = "map") =>
         LET schedule == config.updates.items[idx].schedule
             n == Count(Added(errors, errors'), "Invalid schedule day")
         IN  /\ (schedule.interval = "weekly" /\ schedule.day # Absent
                   /\ schedule.day \notin VALID_DAYS) => n = 1
             /\ schedule.interval \in {"daily", "monthly"} => n = 0)]_vars

NpmInsecureExecutionC8 ==
    [][((pc = "security" /\ idx <= Len(Items(config.updates))) =>
         LET update == Items(config.updates)[idx]
             w == Count(Added(warnings, warnings'), "Consider denying external code execution")
             i == Len(Added(info, info'))
         IN  IF update.eco = "npm" /\ update.insecure = "allow" THEN w = 1 /\ i = 0
             ELSE IF update.eco = "npm" /\ update.insecure = "deny" THEN w = 0 /\ i = 1
             ELSE w = 0 /\ i = 0)]_vars

\* the security pass has seen an npm rule with allow and one with deny
NpmAllowAndDenySeenC8 ==
    /\ pc = "operations"
    /\ Count(warnings, "Consider denying external code execution") = 1
    /\ Count(info, "External code execution denied") = 1

\* day@time, each part "none" when the schedule does not have it
SlotOf(update) ==
    (IF update.schedule.day = Absent THEN "none" ELSE update.schedule.day)
    \o "@" \o
    (IF update.schedule.time = Absent THEN "none" ELSE update.schedule.time)

\* the step of the operational pass for rule idx appends exactly one collision
\* info when an earlier rule has the same slot, naming rule idx against the
\* earliest (first = TRUE) or the latest of the earlier rules with that slot,
\* and nothing otherwise
CollisionNames(first) ==
    (pc = "operations" /\ idx <= Len(Items(config.updates))) =>
        LET items == Items(config.updates)
            earlier == {j \in 1..(idx - 1) : SlotOf(items[j]) = SlotOf(items[idx])}
        IN  info' =
               IF earlier = {} THEN info
               ELSE Append(info, D("run at same time", PolicyLabel(items[idx]),
                                   PolicyLabel(items[IF first THEN Min(earlier)
                                                     ELSE Max(earlier)])))

\* C9 as stated: the collision is reported against the earliest rule that
\* holds the slot.
CollisionNamesFirstC9 == [][CollisionNames(TRUE)]_vars

\* C9 as amended: the collision is reported against the latest earlier rule
\* that holds the slot.
CollisionNamesLatestC9 == [][CollisionNames(FALSE)]_vars

\* three rules share a slot, the first two under different labels, and the
\* third has been reported against the second
ThirdNamedAgainstSecondC9 ==
    /\ pc = "docs"
    /\ Len(Items(config.updates)) = 3
    /\ \A j \in 1..3 : SlotOf(Items(config.updates)[j]) = "none@none"
    /\ PolicyLabel(Items(config.updates)[1]) # PolicyLabel(Items(config.updates)[2])
    /\ info[Len(info)] = D("run at same time", PolicyLabel(Items(config.updates)[3]),
                           PolicyLabel(Items(config.updates)[2]))

\* C10: every step of a validation run leaves each of errors, warnings and
\* info a prefix of its new value (the step that starts a new process with
\* new lists is not a step of the run).
AppendOnlyC10 ==
    [][(pc' # "start" =>
         /\ IsPrefix(errors, errors')
         /\ IsPrefix(warnings, warnings')
         /\ IsPrefix(info, info'))]_vars

\* a run that appended to all three lists more than once
AllListsGrewC10 ==
    pc = "returned" /\ Len(errors) >= 2 /\ Len(warnings) >= 2 /\ Len(info) >= 2

====
